---- MODULE Spec2Model ----
(***************************************************************************)
(* Timeline widget: fetch timeline.json, normalize and sort the events,    *)
(* render them as cards.  The repository holds two builds of the script:   *)
(*   "script"  - src/script.js          (loadTimeline / processJSON / ...) *)
(*   "part000" - src/unnamed/part_000   (loadTimelineData / processEvents) *)
(* Both are modelled; the variable impl says which build is running.       *)
(*                                                                         *)
(* JavaScript values are records [t, n, s]:                                *)
(*   t = "undefined" | "null" | "string" | "number" | "NaN" | "Infinity"   *)
(*   n = a finite number times 120 (1 is 120, 2.5 is 300, 1/12 is 10), so  *)
(*       that tenths and twelfths are exact; for "Infinity" its sign       *)
(*   s = a string, as the sequence of its characters                       *)
(***************************************************************************)
EXTENDS Integers, Sequences, FiniteSets, TLC

\* ------------------------------------------------------------ JS values

Undefined == [t |-> "undefined", n |-> 0, s |-> <<>>]
Null == [t |-> "null", n |-> 0, s |-> <<>>]
NaN == [t |-> "NaN", n |-> 0, s |-> <<>>]
Infinity(sign) == [t |-> "Infinity", n |-> sign, s |-> <<>>]
\* the finite number whose scaled value is k
Scaled(k) == [t |-> "number", n |-> k, s |-> <<>>]
\* a finite integer number
Num(k) == Scaled(k * 120)
\* a finite number given in tenths
Tenths(k) == Scaled(k * 12)
Str(chars) == [t |-> "string", n |-> 0, s |-> chars]

\* typeof v === 'number'
IsNumber(v) == v.t \in {"number", "NaN", "Infinity"}
\* Number.isFinite(v)
IsFinite(v) == v.t = "number"
\* Number.isNaN(v) and the global isNaN(v) on a number
IsNaN(v) == v.t = "NaN"
\* a finite number with no fractional part
IsInteger(v) == v.t = "number" /\ v.n % 120 = 0

\* ToBoolean: !v is ~Truthy(v)
Truthy(v) ==
    CASE v.t = "undefined" -> FALSE
      [] v.t = "null" -> FALSE
      [] v.t = "NaN" -> FALSE
      [] v.t = "number" -> v.n # 0
      [] v.t = "string" -> v.s # <<>>
      [] OTHER -> TRUE

\* Math.trunc on a finite number
Trunc(v) == IF v.n >= 0 THEN Scaled((v.n \div 120) * 120)
            ELSE Scaled(-(((-v.n) \div 120) * 120))

\* a <= b on finite numbers
LessOrEqual(a, b) == a.n <= b.n

\* ------------------------------------------------------------ strings

UpperCase == <<"A", "B", "C", "D", "E", "F", "G", "H", "I", "J", "K", "L", "M",
               "N", "O", "P", "Q", "R", "S", "T", "U", "V", "W", "X", "Y", "Z">>
LowerCase == <<"a", "b", "c", "d", "e", "f", "g", "h", "i", "j", "k", "l", "m",
               "n", "o", "p", "q", "r", "s", "t", "u", "v", "w", "x", "y", "z">>
Digits == <<"0", "1", "2", "3", "4", "5", "6", "7", "8", "9">>
WhiteSpace == {" ", "\t", "\n", "\r"}

IndexOf(seq, c) == IF \E i \in DOMAIN seq : seq[i] = c
                   THEN CHOOSE i \in DOMAIN seq : seq[i] = c
                   ELSE 0

\* String.prototype.toLowerCase
ToLowerCase(chars) ==
    [i \in DOMAIN chars |->
        IF IndexOf(UpperCase, chars[i]) # 0
        THEN LowerCase[IndexOf(UpperCase, chars[i])]
        ELSE chars[i]]

RECURSIVE TrimStart(_)
TrimStart(chars) ==
    IF chars # <<>> /\ Head(chars) \in WhiteSpace THEN TrimStart(Tail(chars)) ELSE chars

RECURSIVE TrimEnd(_)
TrimEnd(chars) ==
    IF chars # <<>> /\ chars[Len(chars)] \in WhiteSpace
    THEN TrimEnd(SubSeq(chars, 1, Len(chars) - 1))
    ELSE chars

\* String.prototype.trim
Trim(chars) == TrimEnd(TrimStart(chars))

IsDigit(c) == IndexOf(Digits, c) # 0

RECURSIVE DigitsValue(_)
DigitsValue(chars) ==
    IF chars = <<>> THEN 0
    ELSE DigitsValue(SubSeq(chars, 1, Len(chars) - 1)) * 10
         + (IndexOf(Digits, chars[Len(chars)]) - 1)

\* An unsigned decimal literal: digits, at most one ".", at least one digit.
IsDecimalLiteral(chars) ==
    /\ \A i \in DOMAIN chars : IsDigit(chars[i]) \/ chars[i] = "."
    /\ Cardinality({i \in DOMAIN chars : chars[i] = "."}) <= 1
    /\ \E i \in DOMAIN chars : IsDigit(chars[i])

\* The value, in tenths, of an unsigned decimal literal (the model keeps one
\* decimal place: its inputs carry at most one fractional digit).
DecimalValue(chars) ==
    LET dot == IndexOf(chars, ".")
        int == IF dot = 0 THEN chars ELSE SubSeq(chars, 1, dot - 1)
        frac == IF dot = 0 THEN <<>> ELSE SubSeq(chars, dot + 1, Len(chars))
    IN DigitsValue(int) * 10 + (IF frac = <<>> THEN 0 ELSE IndexOf(Digits, frac[1]) - 1)

InfinityChars == <<"I", "n", "f", "i", "n", "i", "t", "y">>

\* StringToNumber (ECMAScript 7.1.4.1.1): white space is stripped, the empty
\* string is 0, then a signed decimal literal or signed "Infinity" (case
\* sensitive); anything else is NaN.  Exponents and 0x/0o/0b literals are not
\* modelled: the model's input strings hold none.
StringToNumber(chars) ==
    LET t == Trim(chars)
        signed == t # <<>> /\ Head(t) \in {"+", "-"}
        sign == IF signed /\ Head(t) = "-" THEN -1 ELSE 1
        body == IF signed THEN Tail(t) ELSE t
    IN IF t = <<>> THEN Num(0)
       ELSE IF body = InfinityChars THEN Infinity(sign)
       ELSE IF IsDecimalLiteral(body) THEN Tenths(sign * DecimalValue(body))
       ELSE NaN

\* Number(v)
ToNumber(v) ==
    CASE v.t = "undefined" -> NaN
      [] v.t = "null" -> Num(0)
      [] v.t = "string" -> StringToNumber(v.s)
      [] OTHER -> v

\* ------------------------------------------------------------ months

MONTH_MAP == {
    <<<<"j", "a", "n", "u", "a", "r", "y">>, 1>>,
    <<<<"f", "e", "b", "r", "u", "a", "r", "y">>, 2>>,
    <<<<"m", "a", "r", "c", "h">>, 3>>,
    <<<<"a", "p", "r", "i", "l">>, 4>>,
    <<<<"m", "a", "y">>, 5>>,
    <<<<"j", "u", "n", "e">>, 6>>,
    <<<<"j", "u", "l", "y">>, 7>>,
    <<<<"a", "u", "g", "u", "s", "t">>, 8>>,
    <<<<"s", "e", "p", "t", "e", "m", "b", "e", "r">>, 9>>,
    <<<<"o", "c", "t", "o", "b", "e", "r">>, 10>>,
    <<<<"n", "o", "v", "e", "m", "b", "e", "r">>, 11>>,
    <<<<"d", "e", "c", "e", "m", "b", "e", "r">>, 12>>,
    <<<<"j", "a", "n">>, 1>>,
    <<<<"f", "e", "b">>, 2>>,
    <<<<"m", "a", "r">>, 3>>,
    <<<<"a", "p", "r">>, 4>>,
    <<<<"j", "u", "n">>, 6>>,
    <<<<"j", "u", "l">>, 7>>,
    <<<<"a", "u", "g">>, 8>>,
    <<<<"s", "e", "p">>, 9>>,
    <<<<"s", "e", "p", "t">>, 9>>,
    <<<<"o", "c", "t">>, 10>>,
    <<<<"n", "o", "v">>, 11>>,
    <<<<"d", "e", "c">>, 12>> }

\* MONTH_MAP.get(key) || null
MonthMapGet(key) ==
    IF \E e \in MONTH_MAP : e[1] = key
    THEN Num((CHOOSE e \in MONTH_MAP : e[1] = key)[2])
    ELSE Null

\* script.js parseMonth: a month number or null.  The number branch truncates;
\* the string branch returns Number(trimmed) as it is.
parseMonth(month) ==
    IF month.t \in {"undefined", "null"} THEN Null
    ELSE IF IsNumber(month) /\ IsFinite(month) THEN
        LET n == Trunc(month)
        IN IF LessOrEqual(Num(1), n) /\ LessOrEqual(n, Num(12)) THEN n ELSE Null
    ELSE IF month.t = "string" THEN
        LET trimmed == ToLowerCase(Trim(month.s))
            n == StringToNumber(trimmed)
        IN IF ~IsNaN(n) /\ IsFinite(n)
           THEN (IF LessOrEqual(Num(1), n) /\ LessOrEqual(n, Num(12)) THEN n ELSE Null)
           ELSE MonthMapGet(trimmed)
    ELSE Null

\* part_000 calls getMonthNumber, which no file of src/ defines.  Modelled
\* from the specification (4.2 Normalizer): a number, or a numeric string after
\* trim and lowercase, is truncated and used when in [1,12]; other strings are
\* looked up in the month-name table; an unresolved month defaults to 1.
getMonthNumber(month) ==
    LET n == IF IsNumber(month) THEN month
             ELSE IF month.t = "string" THEN StringToNumber(ToLowerCase(Trim(month.s)))
             ELSE NaN
        named == IF month.t = "string" THEN MonthMapGet(ToLowerCase(Trim(month.s))) ELSE Null
    IN IF IsFinite(n) /\ LessOrEqual(Num(1), Trunc(n)) /\ LessOrEqual(Trunc(n), Num(12))
       THEN Trunc(n)
       ELSE IF IsFinite(n) THEN Num(1)
       ELSE IF named # Null THEN named
       ELSE Num(1)

\* ------------------------------------------------------------ raw input

\* An element of the parsed array: k = "object" (name, year, month are its
\* properties, Undefined when absent), "null", or "primitive" (a number or a
\* string, whose name, year and month read as undefined).
RawObject(name, year, month) == [k |-> "object", name |-> name, year |-> year, month |-> month]
RawNull == [k |-> "null", name |-> Undefined, year |-> Undefined, month |-> Undefined]
RawPrimitive == [k |-> "primitive", name |-> Undefined, year |-> Undefined, month |-> Undefined]

\* A parsed JSON document: an array of elements, or any other value.
JsonArray(items) == [k |-> "array", items |-> items]
JsonOther == [k |-> "other", items |-> <<>>]
NoJson == [k |-> "none", items |-> <<>>]

\* Array.isArray(json)
IsArray(json) == json.k = "array"

\* Reading event.month / event.year / event.name throws a TypeError when the
\* element is null.
ThrowsTypeError(items) == \E i \in DOMAIN items : items[i].k = "null"

\* ------------------------------------------------------------ normalizer

\* script.js processJSON, the map callback's test: is the record skipped?
SkipScript(event) ==
    LET yearNum == ToNumber(event.year)
    IN ~Truthy(event.name) \/ ~Truthy(yearNum) \/ ~IsFinite(yearNum)

\* script.js processJSON, the map callback's result for a kept record:
\* {...event, year: yearNum, __monthNum: monthNum || 1, __originalIndex: index}
EventScript(event, index) ==
    LET monthNum == parseMonth(event.month)
    IN [name |-> event.name,
        year |-> ToNumber(event.year),
        month |-> event.month,
        monthNum |-> IF Truthy(monthNum) THEN monthNum ELSE Num(1),
        originalIndex |-> index]

\* part_000 processEvents, the map callback's test
SkipPart000(event) ==
    LET year == ToNumber(event.year)
    IN ~Truthy(event.name) \/ ~Truthy(year) \/ IsNaN(year)

\* part_000 processEvents, the map callback's result for a kept record
EventPart000(event, index) ==
    [name |-> event.name,
     year |-> ToNumber(event.year),
     month |-> IF Truthy(event.month) THEN event.month ELSE Str(<<>>),
     monthNum |-> getMonthNumber(event.month),
     originalIndex |-> index]

Skip(build, event) == IF build = "script" THEN SkipScript(event) ELSE SkipPart000(event)
Event(build, event, index) ==
    IF build = "script" THEN EventScript(event, index) ELSE EventPart000(event, index)

\* json.map(...).filter(Boolean) over elements i..Len(items); the index handed to
\* the callback is the element's 0-based position in the array.
RECURSIVE MapFilter(_, _, _)
MapFilter(build, items, i) ==
    IF i > Len(items) THEN <<>>
    ELSE (IF Skip(build, items[i]) THEN <<>> ELSE <<Event(build, items[i], i - 1)>>)
         \o MapFilter(build, items, i + 1)

\* The normalized events of an array whose elements can all be read.
Normalize(build, items) == MapFilter(build, items, 1)

\* ------------------------------------------------------------ sorter

\* a - b on JS numbers
Minus(a, b) ==
    CASE a.t = "NaN" \/ b.t = "NaN" -> NaN
      [] a.t = "Infinity" /\ b.t = "Infinity" -> IF a.n = b.n THEN NaN ELSE a
      [] a.t = "Infinity" -> a
      [] b.t = "Infinity" -> Infinity(-b.n)
      [] OTHER -> Scaled(a.n - b.n)

\* a !== b on JS numbers
StrictNotEqual(a, b) == a.t = "NaN" \/ b.t = "NaN" \/ a # b

\* the sign of a comparator result: NaN counts as 0 (ECMAScript SortCompare)
Sign(v) ==
    CASE v.t = "Infinity" -> v.n
      [] v.t = "number" /\ v.n < 0 -> -1
      [] v.t = "number" /\ v.n > 0 -> 1
      [] OTHER -> 0

\* Compare with a slip: the month difference is not reversed for a descending
\* order.
Compare_MonthNotReversed(a, b, order) ==
    IF StrictNotEqual(a.year, b.year)
    THEN (IF order = "asc" THEN Minus(a.year, b.year) ELSE Minus(b.year, a.year))
    ELSE Minus(a.monthNum, b.monthNum)

\* The comparator of applySort / sortEvents: year first, then month, both in the
\* direction of order; any order other than 'asc' compares descending.
Compare(a, b, order) ==
    IF StrictNotEqual(a.year, b.year)
    THEN (IF order = "asc" THEN Minus(a.year, b.year) ELSE Minus(b.year, a.year))
    ELSE (IF order = "asc" THEN Minus(a.monthNum, b.monthNum)
                           ELSE Minus(b.monthNum, a.monthNum))

\* x placed into a sorted sequence after every element it does not precede
InsertSorted(sorted, x, order) ==
    LET before == {p \in DOMAIN sorted : Sign(Compare(x, sorted[p], order)) < 0}
        at == IF before = {} THEN Len(sorted) + 1
              ELSE CHOOSE p \in before : \A q \in before : p <= q
    IN SubSeq(sorted, 1, at - 1) \o <<x>> \o SubSeq(sorted, at, Len(sorted))

\* Array.prototype.sort with the comparator: a stable sort (ECMAScript 2019)
RECURSIVE SortFrom(_, _, _, _)
SortFrom(sorted, events, i, order) ==
    IF i > Len(events) THEN sorted
    ELSE SortFrom(InsertSorted(sorted, events[i], order), events, i + 1, order)

Sort(events, order) == SortFrom(<<>>, events, 1, order)

\* ------------------------------------------------------------ JS arithmetic

\* a + b on JS numbers
Plus(a, b) ==
    CASE a.t = "NaN" \/ b.t = "NaN" -> NaN
      [] a.t = "Infinity" /\ b.t = "Infinity" -> IF a.n = b.n THEN a ELSE NaN
      [] a.t = "Infinity" -> a
      [] b.t = "Infinity" -> b
      [] OTHER -> Scaled(a.n + b.n)

\* a * k for a positive integer literal k
TimesInt(a, k) == IF a.t = "number" THEN Scaled(a.n * k) ELSE a

\* a / k for a positive integer literal k (exact on the model's numbers, whose
\* scaled values are multiples of 12)
DivideByInt(a, k) == IF a.t = "number" THEN Scaled(a.n \div k) ELSE a

\* Math.max(a, b) and Math.min(a, b)
MathMax(a, b) ==
    CASE a.t = "NaN" \/ b.t = "NaN" -> NaN
      [] Sign(Minus(a, b)) >= 0 -> a
      [] OTHER -> b
MathMin(a, b) ==
    CASE a.t = "NaN" \/ b.t = "NaN" -> NaN
      [] Sign(Minus(a, b)) <= 0 -> a
      [] OTHER -> b

\* ------------------------------------------------------------ layout

\* script.js CONFIG
GRAPH_START_YEAR == 2010
GRAPH_PIXELS_PER_YEAR == 200
GRAPH_BASE_OFFSET == 50
GRAPH_Y_POSITIONS == <<50, 250, 450, 150, 350>>

\* part_000 CONFIG.layout
pixelsPerYear == 300
startYear == 2010
yPositions == <<50, 250, 450, 150, 350, 200, 400, 100, 300, 500>>

\* script.js calculateGraphPosition(event, index): index is 0-based
GraphPositionScript(event, index) ==
    LET yearDiff == Minus(event.year, Num(GRAPH_START_YEAR))
        monthOffset == DivideByInt(IF Truthy(event.monthNum) THEN event.monthNum
                                   ELSE Num(1), 12)
        xPos == Plus(TimesInt(Plus(yearDiff, monthOffset), GRAPH_PIXELS_PER_YEAR),
                     Num(GRAPH_BASE_OFFSET))
        yPos == GRAPH_Y_POSITIONS[(index % Len(GRAPH_Y_POSITIONS)) + 1]
    IN [left |-> xPos, top |-> yPos]

\* part_000 calculateGraphPosition(event, index)
GraphPositionPart000(event, index) ==
    LET yearDiff == Minus(event.year, Num(startYear))
        monthOffset == DivideByInt(event.monthNum, 12)
        x == Plus(TimesInt(Plus(yearDiff, monthOffset), pixelsPerYear), Num(50))
        y == yPositions[(index % Len(yPositions)) + 1]
    IN [left |-> x, top |-> y]

\* calculateGraphPosition with a slip: the palette is not cycled, every card
\* takes its first entry.
calculateGraphPosition_PaletteNotCycled(build, event, index) ==
    IF build = "script" THEN GraphPositionScript(event, 0)
    ELSE GraphPositionPart000(event, 0)

calculateGraphPosition(build, event, index) ==
    IF build = "script" THEN GraphPositionScript(event, index)
    ELSE GraphPositionPart000(event, index)

\* script.js calculateGraphWidth(), for a window of innerWidth pixels
calculateGraphWidth(evs, innerWidth) ==
    IF evs = <<>> THEN Num(innerWidth)
    ELSE LET lastEvent == evs[Len(evs)]
             width == Plus(TimesInt(Minus(lastEvent.year, Num(GRAPH_START_YEAR)), 250),
                           Num(500))
         IN MathMax(width, Num(innerWidth))

RECURSIVE MaxYear(_, _)
MaxYear(evs, i) ==
    IF i = Len(evs) THEN evs[i].year ELSE MathMax(evs[i].year, MaxYear(evs, i + 1))
RECURSIVE MinYear(_, _)
MinYear(evs, i) ==
    IF i = Len(evs) THEN evs[i].year ELSE MathMin(evs[i].year, MinYear(evs, i + 1))

\* part_000 setGraphDimensions(): the width it sets, for a non-empty event set
GraphWidthPart000(evs, innerWidth) ==
    LET yearSpan == Plus(Minus(MaxYear(evs, 1), MinYear(evs, 1)), Num(1))
        calculatedWidth == Plus(TimesInt(yearSpan, pixelsPerYear), Num(400))
    IN MathMax(calculatedWidth, Num(innerWidth))

\* ------------------------------------------------------------ cards

\* A date label: kind "empty" (''), "year" (String(year)), "monthYear" (the
\* long name of month number `month` and the year, from toLocaleString) or
\* "text" (the template `${month} ${year}` over the raw month value).
Label(kind, month, year) == [kind |-> kind, month |-> month, year |-> year]

\* The year new Date(year, m, 1) stands for: the argument is truncated, and a
\* year of 0..99 means 1900 + year.
DateYear(year) ==
    LET y == Trunc(year)
    IN IF LessOrEqual(Num(0), y) /\ LessOrEqual(y, Num(99)) THEN Plus(Num(1900), y) ELSE y

\* script.js formatMonthYear(monthNum, year)
formatMonthYear(monthNum, year) ==
    IF ~Truthy(year) THEN Label("empty", Null, Null)
    ELSE IF ~Truthy(monthNum) THEN Label("year", Null, year)
    ELSE Label("monthYear", Trunc(monthNum), DateYear(year))

\* part_000 formatDate(month, year)
formatDate(month, year) ==
    IF ~Truthy(year) THEN Label("empty", Null, Null)
    ELSE IF ~Truthy(month) THEN Label("year", Null, year)
    ELSE Label("text", month, year)

NoPosition == [left |-> Null, top |-> 0]

\* buildEventCard / createEventCard: the card of event at 0-based index, under
\* the current view.  The card keeps the event it was built from.
Card(build, view, event, index) ==
    [event |-> event,
     date |-> IF build = "script" THEN formatMonthYear(event.monthNum, event.year)
              ELSE formatDate(event.month, event.year),
     positioned |-> view = "graph",
     position |-> IF view = "graph" THEN calculateGraphPosition(build, event, index)
                  ELSE NoPosition]

Cards(build, view, evs) == [i \in DOMAIN evs |-> Card(build, view, evs[i], i - 1)]

\* The timeline element: what it shows and its style.width.
WidthUnset == [unit |-> "unset", v |-> Null]
WidthPercent == [unit |-> "percent", v |-> Num(100)]
WidthPx(v) == [unit |-> "px", v |-> v]

\* ------------------------------------------------------------ bounds and inputs

\* the longest array timeline.json holds
MaxItems == 2

\* window.innerWidth at the time of a render
InnerWidths == {800, 1600}

Chars_March == <<"M", "a", "r", "c", "h">>
Chars_2010 == <<"2", "0", "1", "0">>
Chars_2_5 == <<"2", ".", "5">>
Chars_Sept == <<"S", "e", "p", "t">>
Chars_foo == <<"f", "o", "o">>

\* The elements timeline.json is built from: two events of March 2010 (a tie),
\* one with no month, one of 2010 whose year and month are numeric strings, a null,
\* a record with no name, one with an infinite year and a month that is no
\* month, and one of year 0.
RawElements == {
    RawObject(Str(<<"A">>), Num(2010), Str(Chars_March)),
    RawObject(Str(<<"B">>), Num(2010), Num(3)),
    RawObject(Str(<<"C">>), Num(2012), Undefined),
    RawObject(Str(<<"D">>), Str(Chars_2010), Str(Chars_2_5)),
    RawNull,
    RawObject(Undefined, Num(2010), Str(Chars_Sept)),
    RawObject(Str(<<"E">>), Str(InfinityChars), Str(Chars_foo)),
    RawObject(Str(<<"F">>), Num(0), Num(5)) }

RECURSIVE SeqsUpTo(_, _)
SeqsUpTo(S, n) ==
    IF n = 0 THEN {<<>>}
    ELSE LET shorter == SeqsUpTo(S, n - 1)
         IN shorter \cup {Append(q, x) : q \in {r \in shorter : Len(r) = n - 1}, x \in S}

\* What response.json() can settle with: a parsed document, or a SyntaxError.
\* A document is an array, a falsy value (null, 0, "", false) or another value.
JsonFalsy == [k |-> "falsy", items |-> <<>>]
\* A run of n events of March 2010, the month written by name and by number in
\* turn: an array longer than a palette of Y positions, so that two positions
\* of the sequence share a palette entry.
SameDateRun(n) ==
    [i \in 1..n |-> IF i % 2 = 1
                    THEN RawObject(Str(<<"A">>), Num(2010), Str(Chars_March))
                    ELSE RawObject(Str(<<"B">>), Num(2010), Num(3))]
\* one more event than each build's palette holds
RunLengths == {Len(GRAPH_Y_POSITIONS) + 1, Len(yPositions) + 1}
Documents == {JsonArray(items) : items \in SeqsUpTo(RawElements, MaxItems)}
             \cup {JsonArray(SameDateRun(n)) : n \in RunLengths}
             \cup {JsonOther, JsonFalsy}
SyntaxError == [k |-> "syntaxError", items |-> <<>>]
Bodies == Documents \cup {SyntaxError}

\* What fetch() can settle with: a response of some status and body, or a
\* rejection.  The body of a response that is not ok is the host's error page,
\* which is no JSON.  A page opened from file: gets only the rejection.
Statuses == {200, 404, 500}
Response(status, body) == [settled |-> "response", status |-> status, body |-> body]
Rejection == [settled |-> "rejected", status |-> 0, body |-> SyntaxError]
NoResponse == [settled |-> "none", status |-> 0, body |-> SyntaxError]
Outcomes(proto) ==
    IF proto = "file:" THEN {Rejection}
    ELSE {Response(200, body) : body \in Bodies}
         \cup {Response(st, SyntaxError) : st \in Statuses \ {200}}
         \cup {Rejection}
\* response.ok
Ok(r) == r.status >= 200 /\ r.status <= 299

\* the preference store: localStorage, its three keys, and whether getItem and
\* setItem work ("ok") or throw ("blocked")
Absent == "(absent)"
Views == {"graph", "vertical", "horizontal"}
Orders == {"asc", "desc"}
Themes == {"default", "dark"}
Stores ==
    {[mode |-> m, theme |-> t, view |-> v, sort |-> o] :
        m \in {"ok"}, t \in {Absent, "dark"},
        v \in {Absent, "vertical", "bogus"}, o \in {Absent, "desc", "bogus"}}
    \cup {[mode |-> "blocked", theme |-> Absent, view |-> Absent, sort |-> Absent]}
NoStore == [mode |-> "none", theme |-> Absent, view |-> Absent, sort |-> Absent]

\* ------------------------------------------------------------ state

VARIABLES
    impl,           \* which build runs: "script" or "part000"
    protocol,       \* window.location.protocol
    store,          \* localStorage
    events,         \* state.events
    currentView,    \* state.currentView
    currentTheme,   \* state.currentTheme
    sortOrder,      \* state.sortOrder
    timeline,       \* the #timeline element: content, cards, style.width
    loading,        \* the #loading element's style.display
    listeners,      \* whether setupEventListeners has run
    pc,             \* where init / the load stands
    requests,       \* the fetches issued so far, in order
    response,       \* the first fetch's response
    retryResponse,  \* the retry's response
    json,           \* the parsed document handed to the normalizer
    error           \* the error caught by the load, or that escaped init

vars == <<impl, protocol, store, events, currentView, currentTheme, sortOrder,
          timeline, loading, listeners, pc, requests, response, retryResponse,
          json, error>>

NoError == [kind |-> "none", status |-> 0]
HttpError(status) == [kind |-> "http", status |-> status]
NetworkError == [kind |-> "network", status |-> 0]
JsonSyntaxError == [kind |-> "syntax", status |-> 0]
TypeError == [kind |-> "type", status |-> 0]
NotArrayError == [kind |-> "notArray", status |-> 0]

NoMessage == [text |-> "none", error |-> NoError]

\* ------------------------------------------------------------ rendering

\* showError(message): the timeline's content becomes one error panel
showError(tl, text, e) ==
    [tl EXCEPT !.content = "error", !.cards = <<>>,
               !.message = [text |-> text, error |-> e]]

\* script.js renderTimeline() in a window of innerWidth pixels
RenderScript(tl, evs, view, innerWidth) ==
    IF evs = <<>>
    THEN [tl EXCEPT !.content = "empty", !.cards = <<>>, !.message = NoMessage]
    ELSE [content |-> "cards",
          cards |-> Cards("script", view, evs),
          width |-> IF view = "graph" THEN WidthPx(calculateGraphWidth(evs, innerWidth))
                    ELSE WidthPercent,
          message |-> NoMessage]

\* part_000 sortEvents(events)
sortEvents(evs, order) == Sort(evs, order)

\* part_000 renderTimeline()
RenderPart000(tl, evs, view, order, innerWidth) ==
    IF evs = <<>>
    THEN [tl EXCEPT !.content = "empty", !.cards = <<>>, !.message = NoMessage]
    ELSE [content |-> "cards",
          cards |-> Cards("part000", view, sortEvents(evs, order)),
          width |-> IF view = "graph" THEN WidthPx(GraphWidthPart000(evs, innerWidth))
                    ELSE WidthUnset,
          message |-> NoMessage]

\* script.js applySort(): state.events sorted in place
applySort(evs, order) == Sort(evs, order)

\* ------------------------------------------------------------ the load

\* What a step of the load changes, as one record.
Cur == [pc |-> pc, events |-> events, timeline |-> timeline, loading |-> loading,
        listeners |-> listeners, json |-> json, error |-> error]

Becomes(r) ==
    /\ pc' = r.pc
    /\ events' = r.events
    /\ timeline' = r.timeline
    /\ loading' = r.loading
    /\ listeners' = r.listeners
    /\ json' = r.json
    /\ error' = r.error

\* script.js loadTimeline, the catch block: log, pick the message, showError
\* (which hides the loading indicator first).
CatchScript(st, proto, e) ==
    [st EXCEPT !.pc = "failed",
               !.error = e,
               !.loading = "none",
               !.timeline = showError(st.timeline,
                                      IF proto = "file:" THEN "localFile"
                                      ELSE "errorLoading", e)]

\* part_000 loadTimelineData, the catch block: showError, return null; init
\* then returns ("Error already displayed").
CatchPart000(st, proto, e) ==
    [st EXCEPT !.pc = "failed",
               !.error = e,
               !.timeline = showError(st.timeline,
                                      IF proto = "file:" THEN "corsError"
                                      ELSE "failedToLoad", e)]

Catch(build, st, proto, e) ==
    IF build = "script" THEN CatchScript(st, proto, e) ELSE CatchPart000(st, proto, e)

\* script.js processJSON(json) then hideLoading(), inside loadTimeline's try:
\* a document that is no array, or an element that cannot be read, throws into
\* the catch block before state.events is assigned.
ProcessScript(st, proto, doc, view, order, innerWidth) ==
    IF ~IsArray(doc) THEN CatchScript([st EXCEPT !.json = doc], proto, NotArrayError)
    ELSE IF ThrowsTypeError(doc.items)
    THEN CatchScript([st EXCEPT !.json = doc], proto, TypeError)
    ELSE LET evs == applySort(Normalize("script", doc.items), order)
         IN [st EXCEPT !.json = doc,
                       !.events = evs,
                       !.timeline = RenderScript(st.timeline, evs, view, innerWidth),
                       !.loading = "none",
                       !.pc = "rendered"]

\* part_000 processEvents(rawData): [] for a document that is no array
processEvents(doc) == IF ~IsArray(doc) THEN <<>> ELSE Normalize("part000", doc.items)

\* part_000 init, after loadTimelineData returned the document: a falsy document
\* returns at once; processEvents runs outside any try, so its TypeError rejects
\* init's promise; no events shows the error panel; otherwise changeView renders
\* and the listeners are set up.
ProcessPart000(st, doc, view, order, innerWidth) ==
    IF doc.k = "falsy" THEN [st EXCEPT !.json = doc, !.pc = "returned"]
    ELSE IF IsArray(doc) /\ ThrowsTypeError(doc.items)
    THEN [st EXCEPT !.json = doc, !.error = TypeError, !.pc = "rejected"]
    ELSE LET evs == processEvents(doc)
         IN IF evs = <<>>
            THEN [st EXCEPT !.json = doc,
                            !.events = evs,
                            !.timeline = showError(st.timeline, "noValidEvents", NoError),
                            !.pc = "noEvents"]
            ELSE [st EXCEPT !.json = doc,
                            !.events = evs,
                            !.timeline = RenderPart000(st.timeline, evs, view, order,
                                                       innerWidth),
                            !.listeners = TRUE,
                            !.pc = "rendered"]

Process(build, st, proto, doc, view, order, innerWidth) ==
    IF build = "script" THEN ProcessScript(st, proto, doc, view, order, innerWidth)
    ELSE ProcessPart000(st, doc, view, order, innerWidth)

\* loadPreferences(): the three settings after it has run
LoadedPreferences(st) ==
    LET readable == st.mode # "blocked"
    IN [theme |-> IF readable /\ st.theme # Absent THEN st.theme ELSE "default",
        view |-> IF readable /\ st.view # Absent THEN st.view ELSE "graph",
        sort |-> IF readable /\ st.sort # Absent THEN st.sort ELSE "asc"]

\* localStorage.setItem(key, value) inside try/catch
SetItem(st, key, value) == IF st.mode = "ok" THEN [st EXCEPT ![key] = value] ELSE st

\* AfterFirstFetch with a slip: every response that is not ok is retried.
AfterFirstFetch_RetryAnyFailure(outcome) ==
    IF outcome.settled = "rejected" THEN "catch"
    ELSE IF Ok(outcome) THEN "json1"
    ELSE "fetch2"

\* What the first fetch's settling leads to (loadTimeline / loadTimelineData):
\* the pc to go to, "catch" standing for the catch block.
AfterFirstFetch(outcome) ==
    IF outcome.settled = "rejected" THEN "catch"
    ELSE IF Ok(outcome) THEN "json1"
    ELSE IF outcome.status = 404 THEN "fetch2"
    ELSE "catch"

\* What the retry's settling leads to.
AfterRetry(outcome) ==
    IF outcome.settled = "rejected" THEN "catch"
    ELSE IF Ok(outcome) THEN "json2"
    ELSE "catch"

Init ==
    /\ impl \in {"script", "part000"}
    /\ protocol \in {"https:", "file:"}
    /\ store \in (IF impl = "script" THEN Stores ELSE {NoStore})
    /\ events = <<>>
    /\ currentView = "graph"
    /\ currentTheme = "default"
    /\ sortOrder = "asc"
    /\ timeline = [content |-> "initial", cards |-> <<>>, width |-> WidthUnset,
                   message |-> NoMessage]
    /\ loading = "unset"
    /\ listeners = FALSE
    /\ pc = "start"
    /\ requests = <<>>
    /\ response = NoResponse
    /\ retryResponse = NoResponse
    /\ json = NoJson
    /\ error = NoError

\* init(), up to the first await.  script.js: initDOM, loadPreferences,
\* setupEventListeners, loadTimeline (showLoading, the cache-busted fetch).
\* part_000: loadTimelineData (the cache-busted fetch).
Start ==
    /\ pc = "start"
    /\ pc' = "fetch1"
    /\ requests' = <<"timeline.json?t=">>
    /\ IF impl = "script"
       THEN /\ currentTheme' = LoadedPreferences(store).theme
            /\ currentView' = LoadedPreferences(store).view
            /\ sortOrder' = LoadedPreferences(store).sort
            /\ listeners' = TRUE
            /\ loading' = "flex"
       ELSE UNCHANGED <<currentTheme, currentView, sortOrder, listeners, loading>>
    /\ UNCHANGED <<impl, protocol, store, events, timeline, response, retryResponse,
                   json, error>>

\* The cache-busted fetch settles.
FirstFetchSettles ==
    /\ pc = "fetch1"
    /\ \E outcome \in Outcomes(protocol) :
        LET next == AfterFirstFetch(outcome)
        IN /\ response' = outcome
           /\ requests' = IF next = "fetch2" THEN Append(requests, "timeline.json")
                          ELSE requests
           /\ IF next = "catch"
              THEN Becomes(Catch(impl, Cur, protocol,
                                 IF outcome.settled = "rejected" THEN NetworkError
                                 ELSE HttpError(outcome.status)))
              ELSE Becomes([Cur EXCEPT !.pc = next])
    /\ UNCHANGED <<impl, protocol, store, currentView, currentTheme, sortOrder,
                   retryResponse>>

\* The retry (the bare URI) settles; a failed retry throws the HTTP error of the
\* FIRST response.
RetrySettles ==
    /\ pc = "fetch2"
    /\ \E outcome \in Outcomes(protocol) :
        LET next == AfterRetry(outcome)
        IN /\ retryResponse' = outcome
           /\ IF next = "catch"
              THEN Becomes(Catch(impl, Cur, protocol,
                                 IF outcome.settled = "rejected" THEN NetworkError
                                 ELSE HttpError(response.status)))
              ELSE Becomes([Cur EXCEPT !.pc = next])
    /\ UNCHANGED <<impl, protocol, store, currentView, currentTheme, sortOrder,
                   requests, response>>

\* The response whose body the load parses: the first response's, or after a
\* 404 the retry's.
ParsedResponse(at, first, retry) == IF at = "json1" THEN first ELSE retry

\* response.json() settles, and the load runs to its end.
JsonSettles ==
    /\ pc \in {"json1", "json2"}
    /\ \E innerWidth \in InnerWidths :
        LET body == ParsedResponse(pc, response, retryResponse).body
        IN
        IF body = SyntaxError
        THEN Becomes(Catch(impl, Cur, protocol, JsonSyntaxError))
        ELSE Becomes(Process(impl, Cur, protocol, body, currentView, sortOrder,
                             innerWidth))
    /\ UNCHANGED <<impl, protocol, store, currentView, currentTheme, sortOrder,
                   requests, response, retryResponse>>

\* handleViewChange(view) / changeView(newView)
HandleViewChange ==
    /\ listeners
    /\ \E view \in Views, innerWidth \in InnerWidths :
        /\ currentView' = view
        /\ timeline' = IF impl = "script"
                       THEN RenderScript(timeline, events, view, innerWidth)
                       ELSE RenderPart000(timeline, events, view, sortOrder, innerWidth)
        /\ store' = IF impl = "script" THEN SetItem(store, "view", view) ELSE store
    /\ UNCHANGED <<impl, protocol, events, currentTheme, sortOrder, loading, listeners,
                   pc, requests, response, retryResponse, json, error>>

\* handleSortChange(order) / changeSortOrder(newOrder)
HandleSortChange ==
    /\ listeners
    /\ \E order \in Orders, innerWidth \in InnerWidths :
        /\ sortOrder' = order
        /\ events' = IF impl = "script" THEN applySort(events, order) ELSE events
        /\ timeline' = IF impl = "script"
                       THEN RenderScript(timeline, applySort(events, order), currentView,
                                         innerWidth)
                       ELSE RenderPart000(timeline, events, currentView, order, innerWidth)
        /\ store' = IF impl = "script" THEN SetItem(store, "sort", order) ELSE store
    /\ UNCHANGED <<impl, protocol, currentView, currentTheme, loading, listeners,
                   pc, requests, response, retryResponse, json, error>>

\* handleThemeChange(theme) / changeTheme(newTheme)
HandleThemeChange ==
    /\ listeners
    /\ \E theme \in Themes :
        /\ currentTheme' = theme
        /\ store' = IF impl = "script" THEN SetItem(store, "theme", theme) ELSE store
    /\ UNCHANGED <<impl, protocol, events, currentView, sortOrder, timeline, loading,
                   listeners, pc, requests, response, retryResponse, json, error>>

Next ==
    \/ Start
    \/ FirstFetchSettles
    \/ RetrySettles
    \/ JsonSettles
    \/ HandleViewChange
    \/ HandleSortChange
    \/ HandleThemeChange

Spec == Init /\ [][Next]_vars

\* ------------------------------------------------------------ properties

\* a < b and a = b as numbers
NumLess(a, b) == Sign(Minus(a, b)) < 0
NumEqual(a, b) == ~NumLess(a, b) /\ ~NumLess(b, a)
\* e1 is strictly earlier than e2: by year, then by month number
Earlier(e1, e2) ==
    \/ NumLess(e1.year, e2.year)
    \/ NumEqual(e1.year, e2.year) /\ NumLess(e1.monthNum, e2.monthNum)
SameYearMonth(e1, e2) == NumEqual(e1.year, e2.year) /\ NumEqual(e1.monthNum, e2.monthNum)

\* the events of the displayed cards, in display order
Displayed == [i \in DOMAIN timeline.cards |-> timeline.cards[i].event]

\* seq1 holds exactly the elements of seq2, each once
IsPermutation(seq1, seq2) ==
    /\ Len(seq1) = Len(seq2)
    /\ \A k \in DOMAIN seq2 : Cardinality({i \in DOMAIN seq1 : seq1[i] = seq2[k]}) = 1

\* the raw record a kept event was made from
RawOf(e) == json.items[e.originalIndex + 1]

\* C1: whenever the event set is not empty, the displayed cards are a
\* permutation of the normalized events (one card per event), ordered by year
\* and then month number in the direction of the sort order, and events equal
\* on both keys appear in increasing originalIndex, in either direction.
C1_DisplayedCardsSorted ==
    events # <<>> =>
        /\ timeline.content = "cards"
        /\ IsPermutation(Displayed, Normalize(impl, json.items))
        /\ \A i, j \in DOMAIN Displayed :
            i < j =>
                /\ sortOrder = "asc" => ~Earlier(Displayed[j], Displayed[i])
                /\ sortOrder = "desc" => ~Earlier(Displayed[i], Displayed[j])
                /\ SameYearMonth(Displayed[i], Displayed[j])
                    => Displayed[i].originalIndex < Displayed[j].originalIndex

\* C1's case: script.js with a blocked store (so the order was 'asc' at load),
\* after a change to 'desc' and to the horizontal view, showing two events of
\* the same year and month.
C1_Witness ==
    /\ impl = "script"
    /\ store.mode = "blocked"
    /\ sortOrder = "desc"
    /\ currentView = "horizontal"
    /\ timeline.content = "cards"
    /\ Len(timeline.cards) = 2
    /\ SameYearMonth(Displayed[1], Displayed[2])
    /\ Displayed[1].originalIndex < Displayed[2].originalIndex

\* C4: the load fetches the cache-busted URL first; the bare URL is fetched
\* exactly when the first response is a 404, and once; no handler fetches.  Any
\* other failing status of the first response fails the load with the HTTP error
\* of that status and no retry.  After a 404 and an ok retry whose body parses,
\* the document handed on is the retry's, no loader error is raised, and the
\* events are those normalized from it.
C4_FetchProtocol ==
    /\ requests \in {<<>>, <<"timeline.json?t=">>, <<"timeline.json?t=", "timeline.json">>}
    /\ (requests = <<>>) <=> (pc = "start")
    /\ (Len(requests) = 2) <=> (response.settled = "response" /\ response.status = 404)
    /\ (response.settled = "response" /\ ~Ok(response) /\ response.status # 404)
        => /\ pc = "failed"
           /\ error = HttpError(response.status)
           /\ retryResponse = NoResponse
    /\ (/\ response.settled = "response" /\ response.status = 404
        /\ retryResponse.settled = "response" /\ Ok(retryResponse)
        /\ retryResponse.body \in Documents
        /\ pc # "json2")
        => /\ json = retryResponse.body
           /\ error.kind \notin {"http", "network", "syntax"}
           /\ (IsArray(json) /\ ~ThrowsTypeError(json.items))
                => IsPermutation(events, Normalize(impl, retryResponse.body.items))

\* C4's case: a 404, then an ok retry, and the retry's events on display.
C4_Witness ==
    /\ response.status = 404
    /\ Ok(retryResponse)
    /\ requests = <<"timeline.json?t=", "timeline.json">>
    /\ pc = "rendered"
    /\ events # <<>>
    /\ timeline.content = "cards"

\* the month number is an integer in 1..12
IsMonthNumber(m) == IsInteger(m) /\ LessOrEqual(Num(1), m) /\ LessOrEqual(m, Num(12))

\* C2: every event of the working set has a non-empty name, a finite year and
\* a month number that is an integer in 1..12; no more events are kept than the
\* input holds records.
C2_CanonicalEvents ==
    /\ \A i \in DOMAIN events :
        /\ Truthy(events[i].name)
        /\ IsFinite(events[i].year)
        /\ IsMonthNumber(events[i].monthNum)
    /\ Len(events) <= Len(json.items)

\* the records the claim says are dropped: name absent or empty, or year absent
\* or not coercing to a finite number
ClaimDropped(record) ==
    \/ ~Truthy(record.name)
    \/ record.year.t \in {"undefined", "null"}
    \/ ~IsFinite(ToNumber(record.year))

\* C3: for an array whose elements can all be read, the normalizer drops
\* exactly the records of ClaimDropped; the kept records stay in input order and
\* carry their position in the raw array as originalIndex.
C3_DropsExactlyInvalid ==
    (IsArray(json) /\ ~ThrowsTypeError(json.items)) =>
        LET kept == Normalize(impl, json.items)
        IN /\ \A i \in DOMAIN json.items :
                (\E k \in DOMAIN kept : kept[k].originalIndex = i - 1)
                    <=> ~ClaimDropped(json.items[i])
           /\ \A k, l \in DOMAIN kept :
                k < l => kept[k].originalIndex < kept[l].originalIndex
           /\ \A k \in DOMAIN kept : kept[k].name = RawOf(kept[k]).name

\* C5: a step in which the load fails (an error is raised) ends with the error
\* panel as the timeline's only content, the loading indicator not shown, and
\* the error caught (init's promise not rejected).
C5_LoadFailureShowsErrorPanel ==
    [][(error = NoError /\ error' # NoError)
        => /\ pc' = "failed"
           /\ timeline'.content = "error"
           /\ timeline'.cards = <<>>
           /\ loading' # "flex"]_vars

\* C6: an array with a malformed element never fails the load: no error is
\* raised and no error panel shown for it, and every record the normalizer
\* keeps is on display.
C6_MalformedElementOnlyDropped ==
    IsArray(json) =>
        /\ error = NoError
        /\ (\E i \in DOMAIN json.items : ~Skip(impl, json.items[i]))
            => /\ timeline.content = "cards"
               /\ \A i \in DOMAIN json.items :
                    ~Skip(impl, json.items[i])
                        => \E c \in DOMAIN Displayed : Displayed[c].originalIndex = i - 1

\* C7: when the load ended and the document yields no events (an empty array,
\* an array whose records are all dropped, or a document that is no array), the
\* display is the 'no events' placeholder: no card, no error panel.
C7_NoEventsPlaceholder ==
    (/\ json # NoJson
     /\ ~(IsArray(json) /\ ThrowsTypeError(json.items))
     /\ (IsArray(json) => Normalize(impl, json.items) = <<>>))
        => /\ timeline.content = "empty"
           /\ timeline.cards = <<>>

\* C8: script.js parseMonth maps every month value of the input to null
\* (unresolved) or to an integer in 1..12, and an unresolved month leaves the
\* record in with month number 1.
C8_MonthIsIntegerOrUnresolved ==
    (impl = "script" /\ IsArray(json) /\ ~ThrowsTypeError(json.items)) =>
        /\ \A i \in DOMAIN json.items :
            LET m == parseMonth(json.items[i].month)
            IN m = Null \/ IsMonthNumber(m)
        /\ \A k \in DOMAIN events :
            parseMonth(RawOf(events[k]).month) = Null => events[k].monthNum = Num(1)

\* C9: the sort order is always 'asc' or 'desc' and the view is always graph,
\* vertical or horizontal, whatever the preference store held.
C9_SettingsValid ==
    /\ sortOrder \in Orders
    /\ currentView \in Views

\* the raw month resolves to a month: a number or numeric string that truncates
\* into 1..12, or a month name or abbreviation
Resolves(month) == getMonthNumber(month) # Num(1) \/ parseMonth(month) # Null

\* C10: a card's date label carries a month exactly when the event's raw month
\* resolved to one; otherwise it is the year alone.
C10_LabelMonthOnlyIfResolved ==
    \A c \in DOMAIN timeline.cards :
        LET card == timeline.cards[c]
        IN IF Resolves(RawOf(card.event).month)
           THEN card.date.kind \in {"monthYear", "text"}
           ELSE card.date.kind = "year"

\* the load is under way: a fetch or the reading of a body is pending
InFlight == pc \in {"fetch1", "json1", "fetch2", "json2"}

\* C11: while the load is under way no handler runs: a step that leaves the
\* load where it stands changes no setting, stores nothing and renders nothing;
\* and the step that completes the load with a render shows the loaded events
\* under the view and sort order current at that moment.
C11_NoHandlerDuringLoad ==
    [][InFlight =>
        /\ pc' = pc =>
            /\ currentView' = currentView
            /\ sortOrder' = sortOrder
            /\ currentTheme' = currentTheme
            /\ store' = store
            /\ timeline' = timeline
        /\ pc' = "rendered" =>
            /\ timeline'.content = "cards"
            /\ timeline'.cards =
                Cards(impl, currentView', Sort(Normalize(impl, json'.items), sortOrder'))
      ]_vars

\* the positions of two cards share a palette entry: they differ by a multiple
\* of the palette's length
SamePaletteEntry(i, j) ==
    LET size == IF impl = "script" THEN Len(GRAPH_Y_POSITIONS) ELSE Len(yPositions)
    IN (i - 1) % size = (j - 1) % size

\* C12 as stated: in graph view any two cards at different positions whose
\* events have the same year and month number have the same X offset and
\* different Y offsets.
C12_SameDateSameXDifferentY ==
    (timeline.content = "cards" /\ currentView = "graph") =>
        \A i, j \in DOMAIN timeline.cards :
            (i # j /\ SameYearMonth(Displayed[i], Displayed[j])) =>
                /\ timeline.cards[i].position.left = timeline.cards[j].position.left
                /\ timeline.cards[i].position.top # timeline.cards[j].position.top

\* C12, amended: the X offsets of two such cards are the same, and their Y
\* offsets differ exactly when their positions do not share a palette entry
\* (Y is the palette entry at position mod palette size).
C12_SameDateSameXCycledY ==
    (timeline.content = "cards" /\ currentView = "graph") =>
        \A i, j \in DOMAIN timeline.cards :
            (i # j /\ SameYearMonth(Displayed[i], Displayed[j])) =>
                /\ timeline.cards[i].position.left = timeline.cards[j].position.left
                /\ (timeline.cards[i].position.top # timeline.cards[j].position.top)
                    <=> ~SamePaletteEntry(i, j)

\* a graph of more same-date events than the palette holds, in each build
C12_Witness ==
    /\ timeline.content = "cards"
    /\ currentView = "graph"
    /\ sortOrder = "desc"
    /\ \E i, j \in DOMAIN timeline.cards :
        /\ i # j
        /\ SameYearMonth(Displayed[i], Displayed[j])
        /\ SamePaletteEntry(i, j)
        /\ timeline.cards[i].position.top = timeline.cards[j].position.top
        /\ timeline.cards[i].position.left = timeline.cards[j].position.left

\* the width spanning the displayed events' years at the build's own scale and
\* margin, the span counted from the earliest to the latest year, the latest
\* year included (inclusive TRUE) or not
SpanWidth(inclusive) ==
    LET span == Minus(MaxYear(Displayed, 1), MinYear(Displayed, 1))
        yearSpan == IF inclusive THEN Plus(span, Num(1)) ELSE span
    IN IF impl = "script"
       THEN Plus(TimesInt(yearSpan, GRAPH_PIXELS_PER_YEAR), Num(500))
       ELSE Plus(TimesInt(yearSpan, pixelsPerYear), Num(400))

\* C13: in graph view with events on display, the timeline's width is the
\* larger of the viewport width and yearSpan * pixelsPerYear + margin, yearSpan
\* running from the earliest to the latest event year and pixelsPerYear being
\* the scale of the X offsets; so it does not depend on the sort order.
C13_GraphWidthFromYearSpan ==
    (timeline.content = "cards" /\ currentView = "graph") =>
        \E innerWidth \in InnerWidths, inclusive \in BOOLEAN :
            timeline.width = WidthPx(MathMax(SpanWidth(inclusive), Num(innerWidth)))

====
